---- MODULE Spec2Model ----
(***************************************************************************)
(* A model of package multilistener (listener.go): a net.Listener backed   *)
(* by several TCP sub-listeners.  Listen binds the addresses and starts    *)
(* one accept goroutine per sub-listener; the goroutines hand their        *)
(* (conn, err) pairs to Accept over the unbuffered channel conns; Close    *)
(* closes closeCh once and then closes every sub-listener.                 *)
(*                                                                         *)
(* Channels follow the Go runtime: a select is evaluated atomically; a     *)
(* goroutine whose select finds no ready case parks on every channel of    *)
(* the select; a send or receive on conns completes against the goroutine  *)
(* parked first on the other side; close(closeCh) commits every goroutine  *)
(* parked in a select that reads closeCh to that case.                     *)
(***************************************************************************)
EXTENDS Integers, Sequences, FiniteSets, TLC

\* ------------------------------------------------------------- bounds
MaxAddrs == 2
MaxConns == 2
MaxAcceptors == 2
MaxAcceptCalls == 2
MaxClosers == 2

Binders == 1..MaxAddrs
ConnIds == 1..MaxConns
Acceptors == 1..MaxAcceptors
\* Close is called by the program's goroutines 1..MaxClosers and, on a bind
\* failure, by Listen itself (listener.go:49), caller 0.
ListenCaller == 0
Closers == 0..MaxClosers

\* ------------------------------------------------------------- values
NoErr == "nil"
ErrClosed == "net.ErrClosed"
ErrNoAddrs == "no addresses to listen on"
ErrBind == "bind error"
ErrIO == "close error"

\* connErrPair: conn is the k-th connection accepted on sub-listener b
\* (k = 0 is a nil conn).
connErrPair(b, k, e) == [b |-> b, k |-> k, err |-> e]
NoPair == connErrPair(0, 0, NoErr)

\* Faulty variant: the second error is dropped.
JoinFirstOnly(e1, e2) == <<e1>>
\* errors.Join: the non-nil errors, in order.
Join(e1, e2) == SelectSeq(<<e1, e2>>, LAMBDA e : e # NoErr)

VARIABLES
    addrs,      \* Listen's argument: per address, whether it can be bound
    lpc,        \* where Listen is: "start", "closing", "failed", "ready"
    lres,       \* the errors joined in Listen's error result
    listeners,  \* Listener.listeners: the bound sub-listeners, in order
    closed,     \* Listener.closed
    closeCh,    \* Listener.closeCh: "open" or "closed"
    sendq,      \* conns: accept goroutines parked in the send, in order
    recvq,      \* conns: Accept callers parked in the receive, in order
    lstate,     \* sub-listener socket: "unbound", "open", "closed"
    backlog,    \* sub-listener: inbound connections waiting to be accepted
    dials,      \* inbound connections so far, over all sub-listeners
    taken,      \* sub-listener: connections its Accept has returned
    tpc,        \* accept goroutine: "none", "accept", "select", "parked",
                \*   "woken" (the closeCh case was chosen), "done"
    tval,       \* accept goroutine: the pair ln.Accept() returned
    apc,        \* Accept caller: "idle", "parked", "woken"
    acalls,     \* Accept calls made so far, over all callers
    acur,       \* Accept caller: what held when the parked call started
    closedRets, \* history: the calls of Accept that returned net.ErrClosed
    cpc,        \* Close caller: "idle", "signal", "loop", "done"
    ci,         \* Close caller: index into listeners of the loop
    cerr,       \* Close caller: the local err
    cres,       \* Close caller: the returned error
    delivered,  \* history: the pairs received from conns, in order
    connCloses, \* history: conn.Close() calls by accept goroutines, per conn
    closeLog,   \* history: ln.Close() calls by Close, in order
    acceptLog,  \* history: the connections the sub-listeners' Accept
                \*   returned, in the order the calls returned
    fired       \* history: the Close callers that executed close(closeCh)

vars == <<addrs, lpc, lres, listeners, closed, closeCh, sendq, recvq, lstate,
          backlog, dials, taken, tpc, tval, apc, acalls, acur, closedRets, cpc,
          ci, cerr, cres, delivered, connCloses, closeLog, acceptLog, fired>>

listenVars == <<addrs, lpc, lres, listeners>>
closeVars == <<cpc, ci, cerr, cres, closeLog, fired>>
taskVars == <<tpc, tval>>
acceptVars == <<apc, acalls, acur, closedRets>>
sockVars == <<lstate, backlog, dials, taken, acceptLog>>

\* ------------------------------------------------------------ helpers
RECURSIVE SeqsUpTo(_, _)
SeqsUpTo(S, n) ==
    IF n = 0 THEN {<<>>}
    ELSE LET shorter == SeqsUpTo(S, n - 1)
         IN  shorter \cup {Append(s, x) : s \in shorter, x \in S}

Range(s) == {s[i] : i \in 1..Len(s)}

NoStart == [anyRet |-> FALSE, tdRet |-> FALSE, sig |-> FALSE]

\* A Close caller that won the CompareAndSwap (it left "idle" without
\* returning net.ErrClosed at once).
Winner(c) == c \in Range(fired) \/ cpc[c] \in {"signal", "loop"}
AnyCloseReturned == \E c \in Closers \ {ListenCaller} : cpc[c] = "done"
TeardownReturned ==
    \E c \in Closers \ {ListenCaller} : cpc[c] = "done" /\ c \in Range(fired)

\* Listen's argument: at most MaxAddrs addresses, or one more when one of
\* them cannot be bound, so that no more than MaxAddrs sub-listeners exist
\* and a failing Listen can have MaxAddrs of them to close.
AddrLists ==
    {s \in SeqsUpTo({"ok", "bad"}, MaxAddrs + 1) :
        Len(s) <= MaxAddrs \/ \E i \in DOMAIN s : s[i] = "bad"}

Init ==
    /\ addrs \in AddrLists
    /\ lpc = "start"
    /\ lres = <<>>
    /\ listeners = <<>>
    /\ closed = FALSE
    /\ closeCh = "open"
    /\ sendq = <<>>
    /\ recvq = <<>>
    /\ lstate = [b \in Binders |-> "unbound"]
    /\ backlog = [b \in Binders |-> 0]
    /\ dials = 0
    /\ taken = [b \in Binders |-> 0]
    /\ tpc = [b \in Binders |-> "none"]
    /\ tval = [b \in Binders |-> NoPair]
    /\ apc = [a \in Acceptors |-> "idle"]
    /\ acalls = 0
    /\ acur = [a \in Acceptors |-> NoStart]
    /\ closedRets = {}
    /\ cpc = [c \in Closers |-> "idle"]
    /\ ci = [c \in Closers |-> 1]
    /\ cerr = [c \in Closers |-> NoErr]
    /\ cres = [c \in Closers |-> NoErr]
    /\ delivered = <<>>
    /\ connCloses = [b \in Binders |-> [k \in ConnIds |-> 0]]
    /\ closeLog = <<>>
    /\ acceptLog = <<>>
    /\ fired = <<>>

\* ------------------------------------------------------------- Listen
\* listener.go:30-32: no addresses.
ListenEmpty ==
    /\ lpc = "start"
    /\ Len(addrs) = 0
    /\ lpc' = "failed"
    /\ lres' = <<ErrNoAddrs>>
    /\ UNCHANGED <<addrs, listeners, closed, closeCh, sendq, recvq, sockVars,
                   taskVars, acceptVars, closeVars, delivered, connCloses>>

\* Faulty variant: Listen returns the bind error without calling Close.
OnBindErrorNoClose == "failed"
\* What Listen does when lc.Listen fails: it calls mln.Close() before it
\* returns (listener.go:47-51).
OnBindError == "closing"

\* Faulty variant: the new sub-listener is put in front.
PrependListener(ls, b) == <<b>> \o ls
\* listener.go:52: mln.listeners = append(mln.listeners, ln).
AppendListener(ls, b) == Append(ls, b)

\* listener.go:45-53: one iteration of the bind loop.
ListenBind ==
    /\ lpc = "start"
    /\ Len(listeners) < Len(addrs)
    /\ LET i == Len(listeners) + 1 IN
       IF addrs[i] = "ok"
       THEN /\ listeners' = AppendListener(listeners, i)
            /\ lstate' = [lstate EXCEPT ![i] = "open"]
            /\ UNCHANGED <<lpc, lres>>
       ELSE /\ lpc' = OnBindError
            /\ lres' = <<ErrBind>>
            /\ UNCHANGED <<listeners, lstate>>
    /\ UNCHANGED <<addrs, closed, closeCh, sendq, recvq, backlog, dials,
                   taken, acceptLog, taskVars, acceptVars, closeVars,
                   delivered, connCloses>>

\* listener.go:49-50: mln.Close() has returned; Listen returns the joined error.
ListenFail ==
    /\ lpc = "closing"
    /\ cpc[ListenCaller] = "done"
    /\ lpc' = "failed"
    /\ lres' = Join(ErrBind, cres[ListenCaller])
    /\ UNCHANGED <<addrs, listeners, closed, closeCh, sendq, recvq, sockVars,
                   taskVars, acceptVars, closeVars, delivered, connCloses>>

\* Faulty variant: only the last sub-listener is served (the goroutines
\* share one loop variable).
acceptLoopLastOnly ==
    [b \in Binders |-> IF b = listeners[Len(listeners)] THEN "accept" ELSE "none"]
\* listener.go:60-80: acceptLoop starts one goroutine per sub-listener.
acceptLoop == [b \in Binders |-> IF b \in Range(listeners) THEN "accept" ELSE "none"]

\* listener.go:54-57: every address is bound; start the goroutines and return.
ListenReady ==
    /\ lpc = "start"
    /\ Len(addrs) > 0
    /\ Len(listeners) = Len(addrs)
    /\ tpc' = acceptLoop
    /\ lpc' = "ready"
    /\ UNCHANGED <<addrs, lres, listeners, closed, closeCh, sendq, recvq,
                   sockVars, tval, acceptVars, closeVars, delivered, connCloses>>

\* ------------------------------------------------------- environment
\* A client connects to a bound, open sub-listener.
Dial(b) ==
    /\ lstate[b] = "open"
    /\ dials < MaxConns
    /\ dials' = dials + 1
    /\ backlog' = [backlog EXCEPT ![b] = @ + 1]
    /\ UNCHANGED <<listenVars, closed, closeCh, sendq, recvq, lstate, taken,
                   acceptLog, taskVars, acceptVars, closeVars, delivered,
                   connCloses>>

\* A sub-listener is closed behind the Listener's back
\* (listener_test.go:302), so that its Accept fails.
BinderFail(b) ==
    /\ lpc = "ready"
    /\ lstate[b] = "open"
    /\ lstate' = [lstate EXCEPT ![b] = "closed"]
    /\ backlog' = [backlog EXCEPT ![b] = 0]
    /\ UNCHANGED <<listenVars, closed, closeCh, sendq, recvq, dials, taken,
                   acceptLog, taskVars, acceptVars, closeVars, delivered,
                   connCloses>>

\* -------------------------------------------------------------- Close
\* Faulty variant: the flag is set without being tested.
CASAlwaysWins == TRUE
\* listener.go:95: closed.CompareAndSwap(false, true) succeeds.
CASWins == closed = FALSE

\* Faulty variant: the sub-listeners are closed with closeCh left open.
AfterCASSkipSignal == "loop"
\* listener.go:99: the winner of the compare-and-swap goes on to
\* close(l.closeCh), before the loop over l.listeners.
AfterCAS == "signal"

\* listener.go:95-97: the compare-and-swap; the loser returns net.ErrClosed.
CloseCall(c) ==
    /\ cpc[c] = "idle"
    /\ lpc = (IF c = ListenCaller THEN "closing" ELSE "ready")
    /\ IF CASWins
       THEN /\ closed' = TRUE
            /\ cpc' = [cpc EXCEPT ![c] = AfterCAS]
            /\ UNCHANGED cres
       ELSE /\ cpc' = [cpc EXCEPT ![c] = "done"]
            /\ cres' = [cres EXCEPT ![c] = ErrClosed]
            /\ UNCHANGED closed
    /\ UNCHANGED <<listenVars, closeCh, sendq, recvq, sockVars, taskVars,
                   acceptVars, ci, cerr, closeLog, fired, delivered, connCloses>>

\* Faulty variant: a plain send, with no closeCh case.
TaskSelectSendOnly == {"send"}
\* The cases of the accept goroutine's select (listener.go:65-72).
TaskSelectCases == {"send", "close"}

\* Faulty variant: a plain receive, with no closeCh case.
AcceptSelectRecvOnly == {"recv"}
\* The cases of Accept's select (listener.go:85-90).
AcceptSelectCases == {"recv", "close"}

\* listener.go:99: close(l.closeCh).  Every goroutine parked in a select that
\* reads closeCh is committed to that case and leaves the queues of conns.
\* (Closing a closed channel panics; fired then holds a second entry.)
CloseSignal(c) ==
    /\ cpc[c] = "signal"
    /\ closeCh' = "closed"
    /\ fired' = Append(fired, c)
    /\ IF "close" \in TaskSelectCases
       THEN /\ tpc' = [b \in Binders |-> IF tpc[b] = "parked" THEN "woken" ELSE tpc[b]]
            /\ sendq' = <<>>
       ELSE UNCHANGED <<tpc, sendq>>
    /\ IF "close" \in AcceptSelectCases
       THEN /\ apc' = [a \in Acceptors |-> IF apc[a] = "parked" THEN "woken" ELSE apc[a]]
            /\ recvq' = <<>>
       ELSE UNCHANGED <<apc, recvq>>
    /\ cpc' = [cpc EXCEPT ![c] = "loop"]
    /\ ci' = [ci EXCEPT ![c] = 1]
    /\ cerr' = [cerr EXCEPT ![c] = NoErr]
    /\ UNCHANGED <<listenVars, closed, sockVars, tval, acalls, acur,
                   closedRets, cres, closeLog, delivered, connCloses>>

\* What a sub-listener's Close can return: net.ErrClosed when the socket is
\* already closed, otherwise nil or the error of the close system call.
BinderCloseErrs(b) ==
    IF lstate[b] = "closed" THEN {ErrClosed} ELSE {NoErr, ErrIO}

\* Faulty variant: the loop stops at the first ln.Close() error.
NextIndexStopOnError(i, e) == IF e # NoErr THEN Len(listeners) + 1 ELSE i + 1
\* listener.go:101-105: the loop goes on to the next sub-listener whatever
\* ln.Close() returned.
NextIndex(i, e) == i + 1

\* Faulty variant: a later error replaces the one kept.
KeepLastError(err, e) == IF e # NoErr THEN e ELSE err
\* listener.go:102-104: only the first error is kept.
KeepError(err, e) == IF e # NoErr /\ err = NoErr THEN e ELSE err

\* listener.go:101-105: one iteration of the loop over l.listeners.
CloseBinder(c) ==
    /\ cpc[c] = "loop"
    /\ ci[c] <= Len(listeners)
    /\ LET b == listeners[ci[c]] IN
       \E e \in BinderCloseErrs(b) :
          /\ lstate' = [lstate EXCEPT ![b] = "closed"]
          /\ backlog' = [backlog EXCEPT ![b] = 0]
          /\ closeLog' = Append(closeLog, [c |-> c, b |-> b, err |-> e])
          /\ cerr' = [cerr EXCEPT ![c] = KeepError(@, e)]
          /\ ci' = [ci EXCEPT ![c] = NextIndex(@, e)]
    /\ UNCHANGED <<listenVars, closed, closeCh, sendq, recvq, dials, taken,
                   acceptLog, taskVars, acceptVars, cpc, cres, fired, delivered,
                   connCloses>>

\* listener.go:106: return err.
CloseReturn(c) ==
    /\ cpc[c] = "loop"
    /\ ci[c] > Len(listeners)
    /\ cpc' = [cpc EXCEPT ![c] = "done"]
    /\ cres' = [cres EXCEPT ![c] = cerr[c]]
    /\ UNCHANGED <<listenVars, closed, closeCh, sendq, recvq, sockVars,
                   taskVars, acceptVars, ci, cerr, closeLog, fired, delivered,
                   connCloses>>

\* ---------------------------------------------------- accept goroutine
\* listener.go:64: ln.Accept() returns a pending connection, or an error
\* once the socket is closed (by Close or behind the Listener's back);
\* otherwise it blocks.
TaskAccept(b) ==
    /\ tpc[b] = "accept"
    /\ IF lstate[b] = "closed"
       THEN /\ tval' = [tval EXCEPT ![b] = connErrPair(b, 0, ErrClosed)]
            /\ UNCHANGED <<backlog, taken, acceptLog>>
       ELSE /\ backlog[b] > 0
            /\ tval' = [tval EXCEPT ![b] = connErrPair(b, taken[b] + 1, NoErr)]
            /\ backlog' = [backlog EXCEPT ![b] = @ - 1]
            /\ taken' = [taken EXCEPT ![b] = @ + 1]
            /\ acceptLog' = Append(acceptLog, <<b, taken[b] + 1>>)
    /\ tpc' = [tpc EXCEPT ![b] = "select"]
    /\ UNCHANGED <<listenVars, closed, closeCh, sendq, recvq, lstate, dials,
                   acceptVars, closeVars, delivered, connCloses>>

\* Faulty variants: the goroutine loops on an error; it returns after any
\* send; it goes back to the select without calling ln.Accept() again; it
\* runs the statements of the closeCh case after a send.
AfterSendRetry(p) == "accept"
AfterSendStop(p) == "done"
AfterSendResend(p) == "select"
AfterSendClose(p) == "woken"
\* listener.go:73-76: after a send, the goroutine returns when the pair
\* carried an error and loops otherwise.
AfterSend(p) == IF p.err # NoErr THEN "done" ELSE "accept"

\* The pair of goroutine b passes over conns to a call of Accept
\* (listener.go:66 and 86-87) that started under `start`.  The goroutine's
\* conn and err keep their values until the next ln.Accept() assigns them.
Handoff(b, start) ==
    /\ delivered' = Append(delivered,
           [b |-> tval[b].b, k |-> tval[b].k, err |-> tval[b].err,
            sig |-> (closeCh = "closed"),
            anyRet |-> start.anyRet, tdRet |-> start.tdRet])
    /\ tpc' = [tpc EXCEPT ![b] = AfterSend(tval[b])]
    /\ UNCHANGED tval

\* listener.go:65-72: the select.  A case is ready when Accept is parked on
\* conns, or closeCh is closed; with none ready the goroutine parks.
TaskSelect(b) ==
    /\ tpc[b] = "select"
    /\ LET sendReady == recvq # <<>>
           closeReady == "close" \in TaskSelectCases /\ closeCh = "closed"
       IN  \/ /\ sendReady
              /\ Handoff(b, acur[Head(recvq)])
              /\ recvq' = Tail(recvq)
              /\ apc' = [apc EXCEPT ![Head(recvq)] = "idle"]
              /\ acur' = [acur EXCEPT ![Head(recvq)] = NoStart]
              /\ UNCHANGED sendq
           \/ /\ closeReady
              /\ tpc' = [tpc EXCEPT ![b] = "woken"]
              /\ UNCHANGED <<sendq, recvq, tval, apc, acur, delivered>>
           \/ /\ ~sendReady
              /\ ~closeReady
              /\ tpc' = [tpc EXCEPT ![b] = "parked"]
              /\ sendq' = Append(sendq, b)
              /\ UNCHANGED <<recvq, tval, apc, acur, delivered>>
    /\ UNCHANGED <<listenVars, closed, closeCh, sockVars, acalls, closedRets,
                   closeVars, connCloses>>

\* Faulty variant: the conn is not closed on the closeCh case.
ShutdownClosesNothing(p) == FALSE
\* listener.go:68: a non-nil conn is closed on the closeCh case.
ShutdownCloses(p) == p.k # 0

\* listener.go:67-71: the closeCh case: close the conn and return.
TaskShutdown(b) ==
    /\ tpc[b] = "woken"
    /\ connCloses' = IF ShutdownCloses(tval[b])
                     THEN [connCloses EXCEPT ![b][tval[b].k] = @ + 1]
                     ELSE connCloses
    /\ tpc' = [tpc EXCEPT ![b] = "done"]
    /\ tval' = [tval EXCEPT ![b] = NoPair]
    /\ UNCHANGED <<listenVars, closed, closeCh, sendq, recvq, sockVars,
                   acceptVars, closeVars, delivered>>

\* ------------------------------------------------------------- Accept
\* A call that returned (nil, net.ErrClosed) on the closeCh case, with what
\* held when it started and whether it had parked.
ClosedResult(start, wasBlocked) ==
    [anyRet |-> start.anyRet, tdRet |-> start.tdRet, sig |-> start.sig,
     blocked |-> wasBlocked]

\* listener.go:84-91: Accept's select.  It receives from the goroutine
\* parked first on conns, or returns net.ErrClosed when closeCh is closed;
\* with no case ready the caller parks.
AcceptCall(a) ==
    /\ lpc = "ready"
    /\ apc[a] = "idle"
    /\ acalls < MaxAcceptCalls
    /\ acalls' = acalls + 1
    /\ LET start == [anyRet |-> AnyCloseReturned, tdRet |-> TeardownReturned,
                     sig |-> (closeCh = "closed")]
           recvReady == sendq # <<>>
           closeReady == "close" \in AcceptSelectCases /\ closeCh = "closed"
       IN  \/ /\ recvReady
              /\ Handoff(Head(sendq), start)
              /\ sendq' = Tail(sendq)
              /\ UNCHANGED <<recvq, apc, acur, closedRets>>
           \/ /\ closeReady
              /\ closedRets' = closedRets \cup {ClosedResult(start, FALSE)}
              /\ UNCHANGED <<sendq, recvq, apc, acur, taskVars, delivered>>
           \/ /\ ~recvReady
              /\ ~closeReady
              /\ apc' = [apc EXCEPT ![a] = "parked"]
              /\ acur' = [acur EXCEPT ![a] = start]
              /\ recvq' = Append(recvq, a)
              /\ UNCHANGED <<sendq, closedRets, taskVars, delivered>>
    /\ UNCHANGED <<listenVars, closed, closeCh, sockVars, closeVars, connCloses>>

\* listener.go:88-89: a parked caller, woken by close(closeCh), returns
\* net.ErrClosed.
AcceptWake(a) ==
    /\ apc[a] = "woken"
    /\ apc' = [apc EXCEPT ![a] = "idle"]
    /\ acur' = [acur EXCEPT ![a] = NoStart]
    /\ closedRets' = closedRets \cup {ClosedResult(acur[a], TRUE)}
    /\ UNCHANGED <<listenVars, closed, closeCh, sendq, recvq, sockVars,
                   taskVars, acalls, closeVars, delivered, connCloses>>

\* ------------------------------------------------------ Addr and Addrs
\* ln.Addr(): a sub-listener reports the address it was bound to, named here
\* by its position in Listen's argument (sub-listener b is the one that
\* ListenBind bound to addrs[b]).
BoundAddr(b) == b

\* listener.go:111-113: the address of the first sub-listener.
Addr == BoundAddr(listeners[1])

\* listener.go:116-122: the addresses of all sub-listeners, in order.
Addrs == [i \in DOMAIN listeners |-> BoundAddr(listeners[i])]

\* ---------------------------------------------------------------- Spec
Next ==
    \/ ListenEmpty
    \/ ListenBind
    \/ ListenFail
    \/ ListenReady
    \/ \E b \in Binders : Dial(b)
    \/ \E b \in Binders : BinderFail(b)
    \/ \E b \in Binders : TaskAccept(b)
    \/ \E b \in Binders : TaskSelect(b)
    \/ \E b \in Binders : TaskShutdown(b)
    \/ \E a \in Acceptors : AcceptCall(a)
    \/ \E a \in Acceptors : AcceptWake(a)
    \/ \E c \in Closers : CloseCall(c)
    \/ \E c \in Closers : CloseSignal(c)
    \/ \E c \in Closers : CloseBinder(c)
    \/ \E c \in Closers : CloseReturn(c)

Spec == Init /\ [][Next]_vars

\* The Go scheduler runs every runnable goroutine: a goroutine woken by
\* close(closeCh) takes the closeCh case, and a goroutine at its select
\* evaluates it.
Fairness ==
    /\ \A a \in Acceptors : WF_vars(AcceptWake(a))
    /\ \A b \in Binders : WF_vars(TaskShutdown(b))
    /\ \A b \in Binders : WF_vars(TaskSelect(b))
    /\ \A b \in Binders : WF_vars(TaskAccept(b))

FairSpec == Spec /\ Fairness

\* The same, for the callers of Accept alone.
AcceptFairSpec == Spec /\ \A a \in Acceptors : WF_vars(AcceptWake(a))

\* The goroutine that won the compare-and-swap of Close (there is at most
\* one past listener.go:97) runs on to its return.
CloseFairness ==
    WF_vars(\E c \in Closers : CloseSignal(c) \/ CloseBinder(c) \/ CloseReturn(c))

\* Fair scheduling of the accept goroutines and of the callers of Close.
ShutdownSpec ==
    /\ Spec
    /\ \A b \in Binders : WF_vars(TaskAccept(b) \/ TaskSelect(b) \/ TaskShutdown(b))
    /\ CloseFairness

\* The fan-in scenario of TestListener_Accept/all connections
\* (listener_test.go:188-223): every address is bound, each sub-listener
\* receives one connection, Accept is called once per address, and nothing
\* is closed until the test's cleanup calls Close, after the last Accept
\* has returned (listener_test.go:196-200).
FanInInit ==
    /\ Init
    /\ Len(addrs) >= 1
    /\ \A i \in DOMAIN addrs : addrs[i] = "ok"

FanInDial(b) == backlog[b] + taken[b] = 0 /\ Dial(b)
FanInAccept(a) == acalls < Len(addrs) /\ AcceptCall(a)
FanInCleanup(c) ==
    /\ c # ListenCaller
    /\ Len(delivered) = Len(addrs)
    /\ CloseCall(c)

FanInNext ==
    \/ ListenBind
    \/ ListenReady
    \/ \E b \in Binders : FanInDial(b)
    \/ \E b \in Binders : TaskAccept(b)
    \/ \E b \in Binders : TaskSelect(b)
    \/ \E a \in Acceptors : FanInAccept(a)
    \/ \E c \in Closers : FanInCleanup(c)
    \/ \E c \in Closers : CloseSignal(c)
    \/ \E c \in Closers : CloseBinder(c)
    \/ \E c \in Closers : CloseReturn(c)
    \/ \E b \in Binders : TaskShutdown(b)

\* Every client connects, every call of Accept is made, and the scheduler
\* runs every runnable goroutine.
FanInSpec ==
    /\ FanInInit
    /\ [][FanInNext]_vars
    /\ WF_vars(ListenBind)
    /\ WF_vars(ListenReady)
    /\ \A b \in Binders : WF_vars(FanInDial(b))
    /\ \A b \in Binders : WF_vars(TaskAccept(b))
    /\ \A b \in Binders : WF_vars(TaskSelect(b))
    /\ WF_vars(\E a \in Acceptors : FanInAccept(a))

\* ------------------------------------------------------- observations
\* Connection k of sub-listener b was received by an Accept call.
DeliveredCount(b, k) ==
    Cardinality({i \in DOMAIN delivered : delivered[i].b = b /\ delivered[i].k = k})
\* Connection k of sub-listener b is in the hands of b's accept goroutine.
Held(b, k) == tpc[b] \in {"select", "parked", "woken"} /\ tval[b].k = k
\* The error pairs of sub-listener b that Accept calls received.
ErrCount(b) ==
    Cardinality({i \in DOMAIN delivered : delivered[i].b = b /\ delivered[i].err # NoErr})
\* The sub-listeners Close caller c has closed, in order.
ClosedBy(c) ==
    LET mine == SelectSeq(closeLog, LAMBDA r : r.c = c)
    IN  [i \in DOMAIN mine |-> mine[i].b]
\* The connections that the Accept of sub-listener b returned, in order.
ReturnedBy(b) == SelectSeq(acceptLog, LAMBDA e : e[1] = b)
\* The pairs of sub-listener b that Accept calls received, in order.
DeliveredOf(b) == SelectSeq(delivered, LAMBDA r : r.b = b)
\* The errors that the ln.Close() calls of Close caller c returned, in order.
CloseErrs(c) ==
    LET mine == SelectSeq(closeLog, LAMBDA r : r.c = c /\ r.err # NoErr)
    IN  [i \in DOMAIN mine |-> mine[i].err]
\* The position of the first address that cannot be bound (0: there is none).
FirstBad ==
    IF \E i \in DOMAIN addrs : addrs[i] = "bad"
    THEN CHOOSE i \in DOMAIN addrs :
            addrs[i] = "bad" /\ \A j \in 1..(i - 1) : addrs[j] = "ok"
    ELSE 0

\* ------------------------------------------------------------- claims
\* C1: no connection is received by an Accept call once closeCh is closed;
\* a connection that an accept goroutine holds when closeCh is closed stays
\* undelivered: it is still in the goroutine's hands on its way to the
\* closeCh case, or the goroutine has closed it.
C1_NoDeliveryAfterShutdown ==
    /\ \A i \in DOMAIN delivered : delivered[i].k # 0 => ~delivered[i].sig
    /\ closeCh = "closed" =>
          \A b \in Binders : \A k \in 1..taken[b] :
             DeliveredCount(b, k) = 0 =>
                \/ tpc[b] \in {"select", "woken"} /\ tval[b].k = k
                \/ connCloses[b][k] = 1

\* C1 witness: closeCh is closed, a goroutine closed the connection it held,
\* and an Accept call made with closeCh closed returned net.ErrClosed.
C1_Witness ==
    /\ closeCh = "closed"
    /\ \E b \in Binders : \E k \in ConnIds : connCloses[b][k] = 1
    /\ \E r \in closedRets : r.sig

\* C2: every connection a sub-listener's Accept returned is exactly one of:
\* received by exactly one Accept call, closed once by its goroutine, or
\* still held by the goroutine, which is then not terminated.
C2_NoConnLeak ==
    \A b \in Binders : \A k \in 1..taken[b] :
       DeliveredCount(b, k) + connCloses[b][k] + (IF Held(b, k) THEN 1 ELSE 0) = 1

\* C2 witness: one goroutine has terminated after closing its connection
\* while another connection was delivered.
C2_Witness ==
    /\ \E b \in Binders : \E k \in ConnIds : connCloses[b][k] = 1 /\ tpc[b] = "done"
    /\ \E i \in DOMAIN delivered : delivered[i].k # 0

\* C3: closeCh is closed at most once, at most one Close call wins the
\* compare-and-swap, only that call closes sub-listeners, and every other
\* call that has returned returned net.ErrClosed while a winner exists.
C3_CloseExactlyOnce ==
    /\ Len(fired) <= 1
    /\ Cardinality({c \in Closers : Winner(c)}) <= 1
    /\ \A i \in DOMAIN closeLog : Winner(closeLog[i].c)
    /\ \A c \in Closers :
          cpc[c] = "done" =>
             IF Winner(c)
             THEN cres[c] = cerr[c] /\ fired = <<c>>
             ELSE /\ cres[c] = ErrClosed
                  /\ closed
                  /\ \E w \in Closers \ {c} : Winner(w)

\* C3 witness: two concurrent Close calls; one won the compare-and-swap and
\* has torn down, the other returned net.ErrClosed.
C3_Witness ==
    \E w, c \in Closers \ {ListenCaller} :
       /\ w # c
       /\ cpc[w] = "done" /\ Winner(w) /\ Len(closeLog) = Len(listeners)
       /\ cpc[c] = "done" /\ ~Winner(c) /\ cres[c] = ErrClosed

\* C8: when Listen has failed no sub-listener is open and no accept goroutine
\* was started; with no address nothing was bound; after a bind failure at
\* position FirstBad every sub-listener before it was closed, once, by
\* Listen's Close, and no address from FirstBad on was bound.
C8_ListenAllOrNothing ==
    lpc = "failed" =>
       /\ \A b \in Binders : lstate[b] # "open" /\ tpc[b] = "none"
       /\ Len(addrs) = 0 => \A b \in Binders : lstate[b] = "unbound"
       /\ Len(addrs) > 0 =>
             /\ FirstBad > 0
             /\ \A b \in Binders :
                   IF b < FirstBad
                   THEN /\ lstate[b] = "closed"
                        /\ Cardinality({i \in DOMAIN closeLog : closeLog[i].b = b}) = 1
                   ELSE lstate[b] = "unbound"

\* C8 witness: Listen failed on an address after it had bound another one.
C8_Witness == lpc = "failed" /\ FirstBad > 1 /\ Len(closeLog) >= 1

\* C9: when the Close call that tore down has returned, it has closed every
\* sub-listener exactly once, in the order of l.listeners, whatever the
\* individual ln.Close() calls returned.
C9_ClosesEveryBinder ==
    \A c \in Closers :
       cpc[c] = "done" /\ Winner(c) =>
          /\ ClosedBy(c) = listeners
          /\ Len(closeLog) = Len(listeners)

\* C9 witness: the tearing-down Close returned after the first sub-listener's
\* Close failed and a later one was still closed, with a connection already
\* accepted by Accept.
C9_Witness ==
    \E c \in Closers :
       /\ cpc[c] = "done" /\ Winner(c)
       /\ Len(closeLog) >= 2
       /\ closeLog[1].err # NoErr
       /\ \E i \in DOMAIN delivered : delivered[i].k # 0

\* C4: once the Close call that tore down has returned (closeCh is then
\* closed), a call of Accept that starts receives nothing from conns and does
\* not park; no caller stays parked once closeCh is closed: the callers
\* parked at that moment are woken, receive nothing, and return
\* net.ErrClosed, which under fair scheduling they eventually do.
C4_AcceptAfterClose ==
    /\ [](/\ TeardownReturned => closeCh = "closed"
          /\ \A i \in DOMAIN delivered : ~delivered[i].tdRet /\ ~delivered[i].sig
          /\ \A a \in Acceptors : apc[a] = "parked" => closeCh = "open")
    /\ [][\A a \in Acceptors :
             apc[a] = "woken" /\ apc'[a] # "woken" =>
                /\ apc'[a] = "idle"
                /\ delivered' = delivered
                /\ ClosedResult(acur[a], TRUE) \in closedRets']_vars
    /\ \A a \in Acceptors : (apc[a] = "woken") ~> (apc[a] = "idle")

\* C4 witness: a caller that was parked when closeCh was closed has returned
\* net.ErrClosed, and so has a call started after Close returned, while an
\* accept goroutine still holds a connection.
C4_Witness ==
    /\ \E r \in closedRets : r.blocked
    /\ \E r \in closedRets : r.tdRet /\ ~r.blocked
    /\ \E b \in Binders : \E k \in ConnIds : Held(b, k)

\* C6: Accept calls receive at most one error pair per sub-listener, and it
\* is the last pair of that sub-listener they receive; the goroutine whose
\* error was received has terminated, a goroutine that terminated without
\* closeCh being closed delivered exactly one error, and a goroutine that
\* holds an error or has terminated never calls ln.Accept() again.
C6_ErrorOnceThenStop ==
    /\ [](\A b \in Binders :
            /\ ErrCount(b) <= 1
            /\ ErrCount(b) = 1 => tpc[b] = "done"
            /\ tpc[b] = "done" /\ closeCh = "open" => ErrCount(b) = 1
            /\ \A i, j \in DOMAIN delivered :
                  delivered[i].b = b /\ delivered[i].err # NoErr /\ delivered[j].b = b
                     => j <= i)
    /\ [][\A b \in Binders :
             tval[b].err # NoErr \/ tpc[b] = "done" => tpc'[b] # "accept"]_vars

\* C6 witness: a sub-listener delivered a connection and then its error, its
\* goroutine has terminated, and closeCh is still open.
C6_Witness ==
    \E b \in Binders :
       /\ ErrCount(b) = 1
       /\ DeliveredCount(b, 1) = 1
       /\ tpc[b] = "done"
       /\ closeCh = "open"

\* C7: only a Close call changes closed or closeCh; while closeCh is open the
\* goroutine of every sub-listener whose socket is open is alive, no Accept
\* call has returned on the closeCh case, no sub-listener's error is
\* received twice, a goroutine parked in the send never coexists with a
\* caller parked in the receive, and a parked caller leaves Accept only by
\* receiving a pair or by close(closeCh).
C7_FailureDoesNotEscalate ==
    /\ [](/\ closeCh = "closed" => closed
          /\ closeCh = "open" => closedRets = {}
          /\ lpc = "ready" /\ closeCh = "open" =>
                \A b \in Range(listeners) :
                   lstate[b] = "open" => tpc[b] \in {"accept", "select", "parked"}
          /\ \A b \in Binders : ErrCount(b) <= 1
          /\ ~(sendq # <<>> /\ recvq # <<>>))
    /\ [][/\ closed' # closed \/ closeCh' # closeCh => cpc' # cpc
          /\ \A a \in Acceptors :
                apc[a] = "parked" /\ apc'[a] # "parked" =>
                   \/ closeCh = "open" /\ closeCh' = "closed" /\ apc'[a] = "woken"
                   \/ Len(delivered') = Len(delivered) + 1 /\ apc'[a] = "idle"]_vars

\* C7 witness: the error of one sub-listener was received, then a connection
\* of another sub-listener was received, and Close has not been called.
C7_Witness ==
    /\ ~closed /\ closeCh = "open"
    /\ \E i, j \in DOMAIN delivered :
          /\ i < j
          /\ delivered[i].err # NoErr
          /\ delivered[j].k # 0
          /\ delivered[j].b # delivered[i].b

\* C10: after any Close call has returned, a call of Accept that starts
\* receives nothing from conns and does not park.
C10_AnyCloseReturnStopsAccept ==
    /\ \A i \in DOMAIN delivered : ~delivered[i].anyRet
    /\ \A a \in Acceptors : apc[a] = "parked" => ~acur[a].anyRet

\* C5: in the fan-in scenario every pair Accept receives carries a nil error
\* and a connection no earlier call received, and eventually, for good, as
\* many calls as there are addresses have returned and every sub-listener's
\* one connection has been received.
C5_FanInComplete ==
    /\ [](/\ \A i \in DOMAIN delivered : delivered[i].err = NoErr /\ delivered[i].k = 1
          /\ \A i, j \in DOMAIN delivered :
                i # j => delivered[i].b # delivered[j].b)
    /\ <>[](/\ acalls = Len(addrs)
            /\ \A a \in Acceptors : apc[a] = "idle"
            /\ Len(delivered) = Len(addrs)
            /\ {delivered[i].b : i \in DOMAIN delivered} = Range(listeners))

\* C5 witness: two sub-listeners, both connections received, the second
\* sub-listener's first.
C5_Witness ==
    /\ Len(listeners) = MaxAddrs
    /\ Len(delivered) = Len(listeners)
    /\ delivered[1].b = listeners[Len(listeners)]
    /\ \A a \in Acceptors : apc[a] = "idle"

\* C11: once Close has been called, every accept goroutine eventually
\* terminates, whatever it was doing and whether or not Accept is called
\* again; no goroutine is parked in the send on conns once closeCh is closed.
C11_NoTaskLeak ==
    /\ [](closeCh = "closed" =>
             sendq = <<>> /\ \A b \in Binders : tpc[b] # "parked")
    /\ (closed ~> \A b \in Binders : tpc[b] \in {"none", "done"})

\* Both goroutines have terminated after Close with no call of Accept: one
\* of them held a connection, which it closed.
C11_Witness ==
    /\ closed
    /\ acalls = 0
    /\ Len(listeners) = MaxAddrs
    /\ \A b \in Range(listeners) : tpc[b] = "done"
    /\ \E b \in Binders : connCloses[b][1] = 1

\* The position in `delivered` of connection k of sub-listener b, or 0 when
\* no call of Accept has received it.
DeliveredAt(b, k) ==
    LET at == {i \in DOMAIN delivered :
                  delivered[i].b = b /\ delivered[i].k = k}
    IN  IF at = {} THEN 0 ELSE CHOOSE i \in at : \A j \in at : i <= j

\* C12: with no call of Close, connections are delivered in the order in
\* which the sub-listeners' Accept returned them: when sub-listener A
\* returned a before sub-listener B (another one) returned b, and b has been
\* received by a call of Accept, a was received by an earlier call.
C12_ArrivalOrder ==
    ~closed =>
        \A i, j \in DOMAIN acceptLog :
            (/\ i < j
             /\ acceptLog[i][1] # acceptLog[j][1]
             /\ DeliveredAt(acceptLog[j][1], acceptLog[j][2]) > 0)
            => /\ DeliveredAt(acceptLog[i][1], acceptLog[i][2]) > 0
               /\ DeliveredAt(acceptLog[i][1], acceptLog[i][2])
                    < DeliveredAt(acceptLog[j][1], acceptLog[j][2])

\* C13 as claimed: the error of a Listen that failed on a bind holds the bind
\* error and one entry for every error that closing the bound sub-listeners
\* returned.
C13_EveryCloseError ==
    (lpc = "failed" /\ Len(addrs) > 0) =>
        /\ ErrBind \in Range(lres)
        /\ Len(lres) >= 1 + Len(CloseErrs(ListenCaller))

\* C13, amended: the error of a Listen that failed on a bind joins the bind
\* error with the first error, in the order of l.listeners, that closing the
\* bound sub-listeners returned, and is the bind error alone when every
\* sub-listener closed without error.
C13_FirstCloseError ==
    (lpc = "failed" /\ Len(addrs) > 0) =>
        LET errs == CloseErrs(ListenCaller)
        IN  lres = IF errs = <<>> THEN <<ErrBind>> ELSE <<ErrBind, errs[1]>>

\* Listen failed after binding two sub-listeners whose Close both failed.
C13_Witness ==
    /\ lpc = "failed"
    /\ Len(CloseErrs(ListenCaller)) = 2
    /\ lres = <<ErrBind, ErrIO>>

\* C14: the Close call that tore down returns the error of the first
\* sub-listener, in the order of l.listeners, whose Close failed, and nil
\* exactly when every ln.Close() returned nil; a later error does not
\* replace the first.
C14_FirstErrorWins ==
    \A c \in Closers :
        (cpc[c] = "done" /\ Winner(c)) =>
            LET errs == CloseErrs(c)
            IN  /\ cres[c] = IF errs = <<>> THEN NoErr ELSE errs[1]
                /\ cres[c] = NoErr <=>
                      \A i \in DOMAIN closeLog :
                          closeLog[i].c = c => closeLog[i].err = NoErr

\* The tearing-down Close returned the first of two different errors: the
\* first sub-listener had been closed behind the Listener's back, and the
\* second one's Close failed.
C14_Witness ==
    \E c \in Closers :
        /\ cpc[c] = "done" /\ Winner(c)
        /\ CloseErrs(c) = <<ErrClosed, ErrIO>>
        /\ cres[c] = ErrClosed

\* C15: once Listen has returned a Listener, l.listeners never changes,
\* whatever Accept, Close and the accept goroutines do; at any time, after
\* Close too, Addrs returns the bound addresses in the order they were given
\* to Listen and Addr returns the first of them.
C15_ListenersFixed ==
    /\ [](lpc = "ready" =>
             /\ Addrs = [i \in DOMAIN addrs |-> i]
             /\ Addr = 1)
    /\ [][lpc = "ready" => listeners' = listeners]_vars

\* Two sub-listeners, one of which failed and had its error received by
\* Accept; Close has torn down and returned; Addrs and Addr are as at
\* construction.
C15_Witness ==
    /\ lpc = "ready"
    /\ Addrs = <<1, 2>>
    /\ Addr = 1
    /\ \E b \in Binders : ErrCount(b) = 1
    /\ \E c \in Closers : cpc[c] = "done" /\ Winner(c)

\* C16: the pairs of one sub-listener are received by Accept calls in the
\* order in which its Accept returned them: its i-th received pair is the
\* i-th connection it returned, or else its error, which is the last pair
\* received from it.
C16_PerBinderOrder ==
    \A b \in Binders :
        LET mine == DeliveredOf(b)
        IN  \A i \in DOMAIN mine :
                IF mine[i].err = NoErr
                THEN /\ i <= Len(ReturnedBy(b))
                     /\ mine[i].k = ReturnedBy(b)[i][2]
                ELSE i = Len(mine)

\* One sub-listener's two connections were received in the order it
\* returned them.
C16_Witness ==
    \E b \in Binders :
        /\ Len(DeliveredOf(b)) = 2
        /\ DeliveredOf(b)[1].k = 1
        /\ DeliveredOf(b)[2].k = 2

\* C17: Close closes closeCh before it closes any sub-listener: whenever
\* Close has called some ln.Close(), closeCh is closed and the closed flag
\* is set.
C17_SignalBeforeBinders ==
    closeLog # <<>> => closeCh = "closed" /\ closed

\* Close has closed the first sub-listener and not yet the second.
C17_Witness ==
    /\ lpc = "ready"
    /\ Len(listeners) = MaxAddrs
    /\ Len(closeLog) = 1
    /\ \E c \in Closers : cpc[c] = "loop"

\* C18: when Listen has returned a Listener, a goroutine has been started
\* for every sub-listener and for nothing else; before that, and when Listen
\* fails, there is none.  A goroutine is started only by Listen's call of
\* acceptLoop, for a sub-listener that has none, and a goroutine that has
\* returned is not started again: a sub-listener never has two.
C18_OneTaskPerBinder ==
    /\ [](IF lpc = "ready"
          THEN \A b \in Binders : tpc[b] # "none" <=> b \in Range(listeners)
          ELSE \A b \in Binders : tpc[b] = "none")
    /\ [][\A b \in Binders :
            /\ tpc[b] = "done" => tpc'[b] = "done"
            /\ tpc[b] # "none" => tpc'[b] # "none"
            /\ (tpc[b] = "none" /\ tpc'[b] # "none") =>
                  lpc = "start" /\ lpc' = "ready" /\ tpc'[b] = "accept"]_vars

\* Two sub-listeners: the goroutine of one has returned after its error was
\* received, the goroutine of the other is still running.
C18_Witness ==
    /\ lpc = "ready"
    /\ Len(listeners) = MaxAddrs
    /\ \E b \in Binders : tpc[b] = "done" /\ ErrCount(b) = 1
    /\ \E b \in Binders : tpc[b] \in {"accept", "select", "parked"}

\* The callers of Accept that are inside a call.
InAccept == {a \in Acceptors : apc[a] \in {"parked", "woken"}}

\* C19: with several callers of Accept, a pair sent on conns is received by
\* exactly one call: every pair received is one a sub-listener returned, no
\* connection and no sub-listener's error is received twice, and every pair
\* received used up a call of its own; a step hands over one pair at most,
\* and it lets exactly one call return: that of one parked caller, the
\* other parked callers staying parked, or the call being made.
C19_OneReceiverPerPair ==
    /\ [](/\ \A i \in DOMAIN delivered :
                delivered[i].k # 0 =>
                   /\ <<delivered[i].b, delivered[i].k>> \in Range(acceptLog)
                   /\ DeliveredCount(delivered[i].b, delivered[i].k) = 1
          /\ \A b \in Binders : ErrCount(b) <= 1
          /\ Len(delivered) + Cardinality(InAccept) <= acalls)
    /\ [][delivered' # delivered =>
            /\ delivered' = Append(delivered, delivered'[Len(delivered')])
            /\ \/ /\ acalls' = acalls
                  /\ \E a \in Acceptors :
                        /\ apc[a] = "parked" /\ apc'[a] = "idle"
                        /\ \A o \in Acceptors \ {a} : apc'[o] = apc[o]
               \/ /\ acalls' = acalls + 1
                  /\ apc' = apc]_vars

\* Both callers were inside Accept; one pair was handed over, and one
\* caller is still parked on conns.
C19_Witness ==
    /\ acalls = 2
    /\ Len(delivered) = 1
    /\ closeCh = "open"
    /\ \E a \in Acceptors : apc[a] = "parked" /\ recvq = <<a>>

\* C20: a connection received by a call of Accept is never closed by the
\* Listener.  A connection is closed only by its accept goroutine taking the
\* closeCh case (Close closes sub-listeners, not connections), so closeCh is
\* closed, the connection was returned by the sub-listener and received by
\* no call of Accept, and it is closed once.
C20_DeliveredNeverClosed ==
    /\ [](\A b \in Binders : \A k \in ConnIds :
             /\ connCloses[b][k] <= 1
             /\ connCloses[b][k] = 1 =>
                   /\ closeCh = "closed"
                   /\ k <= taken[b]
                   /\ DeliveredCount(b, k) = 0)
    /\ [][connCloses' # connCloses =>
            \E b \in Binders :
                /\ tpc[b] = "woken" /\ tpc'[b] = "done"
                /\ tval[b].k # 0
                /\ connCloses' = [connCloses EXCEPT ![b][tval[b].k] = 1]]_vars

\* Close has returned and every goroutine too: one connection had been
\* received by Accept and was left open, another one was held by its
\* goroutine, which closed it.
C20_Witness ==
    /\ \E c \in Closers : cpc[c] = "done" /\ Winner(c)
    /\ \A b \in Range(listeners) : tpc[b] = "done"
    /\ \E b \in Binders : \E k \in ConnIds :
          DeliveredCount(b, k) = 1 /\ connCloses[b][k] = 0
    /\ \E b \in Binders : \E k \in ConnIds :
          DeliveredCount(b, k) = 0 /\ connCloses[b][k] = 1
====
